---- MODULE Spec2Model ----
(***************************************************************************)
(* DansScrap: the Tech Talk spider (traversal, retry, session artifact),   *)
(* the offset frontier helpers and the storage pipeline.                   *)
(*                                                                         *)
(* Spec       the crawl: start_requests, parse_board, parse_topic          *)
(* SpecFn     detect_step / next_offset / collect_offsets on drawn inputs  *)
(* SpecPosts  _extract_posts on drawn topic pages                          *)
(* SpecStore  PostStorePipeline: process_item and close_spider             *)
(***************************************************************************)
EXTENDS Integers, Sequences, FiniteSets, TLC

VARIABLES
    \* ---- spider configuration (fixed at construction) ----
    cf_mode,                \* "auto" | "manual"
    bootstrap_mode,         \* "auto" | "skip"
    fetch_posts,            \* BOOLEAN
    max_board_pages,        \* 0 stands for None (no cap)
    max_topics,             \* 0 stands for None
    topic_max_pages,        \* 0 stands for None
    storage_state_ttl,      \* seconds, scaled
    \* ---- session artifact file playwright_state.json ----
    state_file,             \* "absent" | "old" | "new" | "new_nocookies" | "partial"
    state_age,              \* age of the "old" file when the run starts
    \* ---- spider state ----
    pc,                     \* "rejected" | "init" | "bootstrap" | "running" | "failed" | "closed"
    board_pages_processed,
    topic_seen,
    board_metadata_emitted,
    board_infos_emitted,    \* (history) BoardInfoItems yielded in this run
    watched,                \* (history) the page whose responses are counted
    fetches,                \* (history) responses received for that page
    pending,                \* requests handed to the scheduler, not yet answered
    todo,                   \* the steps start_requests has still to take
    bootstrap_driver,       \* TRUE while self.bootstrap_driver holds a driver
    browser,                \* the bootstrap browser: "none" | "open" | "closed"
    \* ---- observation of the run (history) ----
    summaries_emitted,      \* topic id -> number of TopicSummaryItems yielded
    topics_scheduled,       \* topic id -> number of offset-0 topic requests
    topic_pages_done,       \* topic id -> pages processed by parse_topic
    last,                   \* the handler call that produced this state
    advertised,             \* offsets the page just processed links to for its identifier
    bootstraps,             \* bootstrap procedures started in this run
    outcome,                \* (history) how the bootstrap of this run ends
    prompts,                \* confirmations the manual bootstrap has asked for
    confirmation,           \* what the manual bootstrap found at the last one
    \* ---- offset frontier, called on its own (SpecFn) ----
    fn_links,               \* pagination anchors of the page at hand
    fn_offsets,             \* the offset set at hand
    fn_current,             \* the current offset
    fn_default,             \* the default step supplied by the caller
    fn_out,                 \* the last call and what it returned
    \* ---- _extract_posts, called on its own (SpecPosts) ----
    page_offset,            \* starting offset of the topic page
    page_wrappers,          \* the div.post_wrapper elements of the page
    posts_out,              \* the posts yielded for the page
    \* ---- PostStorePipeline (SpecStore) ----
    board_info,             \* buffer: board id -> payload
    topic_summaries,        \* buffer: board id -> (topic id -> payload)
    topic_posts,            \* buffer: <<board id, topic id>> -> (post id -> payload)
    data_dir,               \* the files under DATA_DIR: path -> JSON content
    store_pc,               \* "open" while items arrive | "closed" after close_spider
    now,                    \* the wall clock read by iso_now
    accepted,               \* items handed to process_item in this run
    accept_log,             \* (history) those items, in the order of the calls
    \* ---- observation of the pipeline (history) ----
    flushed_from,           \* the files as the last close_spider found them
    prev_input              \* the buffers of the previous run, timestamps removed

confVars  == <<cf_mode, bootstrap_mode, fetch_posts, max_board_pages, max_topics,
               topic_max_pages, storage_state_ttl>>
bootVars  == <<todo, bootstrap_driver, browser, bootstraps, outcome, prompts,
               confirmation>>
crawlVars == <<state_file, state_age, pc, board_pages_processed, topic_seen,
               board_metadata_emitted,
                   board_infos_emitted, pending, summaries_emitted,
               topics_scheduled, topic_pages_done, last, advertised, watched,
               fetches, bootVars>>
fnVars    == <<fn_links, fn_offsets, fn_current, fn_default, fn_out>>
postVars  == <<page_offset, page_wrappers, posts_out>>
storeVars == <<board_info, topic_summaries, topic_posts, data_dir, store_pc, now,
               accepted, accept_log, flushed_from, prev_input>>

-----------------------------------------------------------------------------
(* Bounds of the model *)

MaxBoardPage == 1    \* board offsets range over DefaultStep * (0..MaxBoardPage)
MaxTopicPage == 2    \* topic offsets range over DefaultStep * (0..MaxTopicPage)
MaxRows    == 2      \* topic rows on one board page
MaxCap     == 2      \* largest value drawn for a page / topic cap
MaxAge     == 2      \* largest age drawn for an existing artifact file
MaxTtl     == 2      \* largest ttl drawn
CountCap   == 2      \* history counters saturate here
MaxTens    == 4      \* offsets 10, 20, ... 10 * MaxTens join the offset pool
MaxDefault == 2      \* default steps 1..MaxDefault are drawn besides 25
MaxWrappers == 5     \* post wrappers on one topic page
MaxItems   == 2      \* items handed to process_item in one run
MaxPrompts == 3      \* confirmations of one manual bootstrap that are turned down
MaxRuns    == 3      \* runs of the pipeline over one data directory

(* Program constants *)

cf_max_retries == 3
DefaultStep    == 25

board_id       == "8"
Topics         == {"101", "102"}
ChallengeStatuses == {403, 520}
HandledStatuses   == {200} \cup ChallengeStatuses   \* statuses that reach a callback
MaxPage(param) == IF param = "board" THEN MaxBoardPage ELSE MaxTopicPage
Offsets(param) == {DefaultStep * k : k \in 0..MaxPage(param)}
NoOffset       == -1     \* a pagination href whose entry carries no numeric offset

-----------------------------------------------------------------------------
(* utils.py *)

SetMin(S) == CHOOSE x \in S : \A y \in S : x <= y

\* (mutant) the identifier of the anchor is not compared
Mut_collect_offsets_any_ident(links, param, ident) ==
    {l.offset : l \in {m \in links : /\ m.param = param
                                     /\ m.offset # NoOffset}} \cup {0}

\* collect_offsets: anchors are (param, ident, offset) triples as parsed
\* from the href; only anchors for `param` whose identifier equals `ident`
\* and that carry a leading integer are kept; 0 is always added.
collect_offsets(links, param, ident) ==
    {l.offset : l \in {m \in links : /\ m.param = param
                                     /\ m.ident = ident
                                     /\ m.offset # NoOffset}} \cup {0}

ConsecutiveDiffs(offsets) ==
    {b - a : <<a, b>> \in {p \in offsets \X offsets :
                              /\ p[1] < p[2]
                              /\ ~ \E c \in offsets : p[1] < c /\ c < p[2]}}

SetMax(S) == CHOOSE x \in S : \A y \in S : x >= y

\* (mutant) the largest gap is taken instead of the smallest
Mut_detect_step_max(offsets, default) ==
    LET positives == {d \in ConsecutiveDiffs(offsets) : d > 0}
    IN  IF positives # {} THEN SetMax(positives) ELSE default

\* (mutant) a single gap is not taken for a step
Mut_detect_step_two_gaps(offsets, default) ==
    LET positives == {d \in ConsecutiveDiffs(offsets) : d > 0}
    IN  IF Cardinality(offsets) > 2 THEN SetMin(positives) ELSE default

detect_step(offsets, default) ==
    LET positives == {d \in ConsecutiveDiffs(offsets) : d > 0}
    IN  IF positives # {} THEN SetMin(positives) ELSE default

\* Python's None where an Optional[int] is returned (offsets are never negative)
None == -1

\* (mutant) the candidates are taken with >= instead of >
Mut_next_offset_geq(offsets, current) ==
    LET candidates == {value \in offsets : value >= current}
    IN  IF candidates # {} THEN SetMin(candidates) ELSE None

\* (mutant) any other offset is a candidate, not only the greater ones
Mut_next_offset_any(offsets, current) ==
    LET candidates == {value \in offsets : value # current}
    IN  IF candidates # {} THEN SetMin(candidates) ELSE None

next_offset(offsets, current) ==
    LET candidates == {value \in offsets : value > current}
    IN  IF candidates # {} THEN SetMin(candidates) ELSE None

-----------------------------------------------------------------------------
(* Request metadata: a dict, modelled as a function from keys to values *)

EmptyMeta == [k \in {} |-> TRUE]

Update(a, b) ==
    [k \in (DOMAIN a) \cup (DOMAIN b) |-> IF k \in DOMAIN b THEN b[k] ELSE a[k]]

Get(meta, key, default) == IF key \in DOMAIN meta THEN meta[key] ELSE default

Url(param, ident, offset) == [param |-> param, ident |-> ident, offset |-> offset]

Request(url, callback, meta) == [url |-> url, callback |-> callback, meta |-> meta]

NoRequest == Request(Url("none", "none", 0), "none", EmptyMeta)

\* _build_meta: the storage_state is attached iff the artifact file `file`
\* exists at the time the request is built.
_build_meta(file, extra, new_context) ==
    LET base    == [playwright |-> TRUE]
        stealth == IF cf_mode # "manual"
                   THEN [playwright_page_init_callback |-> "enable_stealth"]
                   ELSE EmptyMeta
        storage == IF file # "absent"
                   THEN [storage_state |-> file]
                   ELSE EmptyMeta
        context == IF new_context
                   THEN [playwright_context |-> "context-uuid4"]
                   ELSE EmptyMeta
    IN  Update(Update(Update(Update(base, stealth), storage), context), extra)

RetryKeys == {"board_offset", "topic_offset", "board_id", "topic_id"}

\* (mutant) the ceiling test written with > instead of >=
Mut_retry_ceiling_off_by_one(file, request) ==
    LET retry_count == Get(request.meta, "cf_retry", 0)
        extra == [key \in (DOMAIN request.meta) \cap RetryKeys |-> request.meta[key]]
    IN  IF cf_mode = "manual" THEN {}
        ELSE IF retry_count > cf_max_retries THEN {}
        ELSE {Request(request.url, request.callback,
                      _build_meta(file, Update(extra, [cf_retry |-> retry_count + 1]),
                                  TRUE))}

\* (mutant) manual mode retries like auto mode
Mut_retry_in_manual(file, request) ==
    LET retry_count == Get(request.meta, "cf_retry", 0)
        extra == [key \in (DOMAIN request.meta) \cap RetryKeys |-> request.meta[key]]
    IN  IF retry_count >= cf_max_retries THEN {}
        ELSE {Request(request.url, request.callback,
                      _build_meta(file, Update(extra, [cf_retry |-> retry_count + 1]),
                                  TRUE))}

\* (mutant) the whole meta of the challenged request is carried over
Mut_retry_keeps_meta(file, request) ==
    LET retry_count == Get(request.meta, "cf_retry", 0)
    IN  IF cf_mode = "manual" THEN {}
        ELSE IF retry_count >= cf_max_retries THEN {}
        ELSE {Request(request.url, request.callback,
                      _build_meta(file,
                                  Update(request.meta, [cf_retry |-> retry_count + 1]),
                                  TRUE))}

\* (mutant) a page that cannot be retried is skipped: the request goes to the
\* offset one default step further
Mut_retry_skips_page(file, request) ==
    LET retry_count == Get(request.meta, "cf_retry", 0)
        extra == [key \in (DOMAIN request.meta) \cap RetryKeys |-> request.meta[key]]
        key   == IF request.callback = "parse_board" THEN "board_offset" ELSE "topic_offset"
        skip  == request.url.offset + DefaultStep
    IN  IF cf_mode = "manual" \/ retry_count >= cf_max_retries
        THEN {Request([request.url EXCEPT !.offset = skip], request.callback,
                      _build_meta(file,
                                  Update(extra, (key :> skip) @@ [cf_retry |-> 0]),
                                  FALSE))}
        ELSE {Request(request.url, request.callback,
                      _build_meta(file, Update(extra, [cf_retry |-> retry_count + 1]),
                                  TRUE))}

\* (mutant) the retry carries the counter of the challenged request on
Mut_retry_no_increment(file, request) ==
    LET retry_count == Get(request.meta, "cf_retry", 0)
        extra == [key \in (DOMAIN request.meta) \cap RetryKeys |-> request.meta[key]]
    IN  IF cf_mode = "manual" THEN {}
        ELSE IF retry_count >= cf_max_retries THEN {}
        ELSE {Request(request.url, request.callback,
                      _build_meta(file, Update(extra, [cf_retry |-> retry_count]),
                                  TRUE))}

_retry_with_new_context(file, request) ==
    LET retry_count == Get(request.meta, "cf_retry", 0)
        extra == [key \in (DOMAIN request.meta) \cap RetryKeys |-> request.meta[key]]
    IN  IF cf_mode = "manual" THEN {}
        ELSE IF retry_count >= cf_max_retries THEN {}
        ELSE {Request(request.url, request.callback,
                      _build_meta(file, Update(extra, [cf_retry |-> retry_count + 1]),
                                  TRUE))}

-----------------------------------------------------------------------------
(* Session artifact: _ensure_storage_state and the two bootstraps *)

\* What a bootstrap run can end as.  "raised" stands for an exception that
\* leaves start_requests; state "none" is the empty dict; "wrote" tells that
\* the procedure wrote the artifact file itself; "launched" that it opened a
\* browser, "closed" that it closed that browser before it returned or raised.
Outcome(raised, solved, state, wrote, launched, closed) ==
    [raised |-> raised, solved |-> solved, state |-> state, wrote |-> wrote,
     launched |-> launched, closed |-> closed]

\* no bootstrap has run
NoOutcome == Outcome(FALSE, FALSE, "notrun", FALSE, FALSE, FALSE)

\* _manual_playwright_bootstrap.  The browser lives inside the
\* `with sync_playwright()` block, which stops Playwright and its browser
\* when an exception leaves it; the other exits close it explicitly.
ManualOutcomes ==
    {Outcome(TRUE, FALSE, "none", FALSE, TRUE, TRUE),
     \* operator typed SKIP: returns {}
     Outcome(FALSE, FALSE, "none", FALSE, TRUE, TRUE),
     \* verified with HTTP 200: the state is written by the bootstrap
     \* itself, with or without cookies in it
     Outcome(FALSE, TRUE, "cookies", TRUE, TRUE, TRUE),
     Outcome(FALSE, TRUE, "nocookies", TRUE, TRUE, TRUE)}

\* _auto_bootstrap.  The finally block quits the driver only when
\* close_driver was set: the wait ended solved, cookies were read and the
\* operator answered yes to closing the helper window.
AutoOutcomes ==
    {\* driver.get or a later call raised
     Outcome(TRUE, FALSE, "none", FALSE, TRUE, FALSE),
     \* undetected_chromedriver missing: returns {}
     Outcome(FALSE, FALSE, "none", FALSE, FALSE, FALSE)}
    \cup
     \* the driver's cookies are returned whether or not the wait ended solved
    {o \in {Outcome(FALSE, solved, state, FALSE, TRUE, closed) :
                solved \in BOOLEAN, state \in {"cookies", "nocookies"},
                closed \in BOOLEAN} :
        o.closed => (o.solved /\ o.state = "cookies")}

\* The file after _ensure_storage_state, given the bootstrap outcome `o`.
_ensure_storage_state(file, age, o) ==
    IF file # "absent" /\ age < storage_state_ttl THEN file
    ELSE IF cf_mode # "manual" /\ bootstrap_mode = "skip" THEN file
    ELSE LET after == IF o.wrote
                      THEN (IF o.state = "cookies" THEN "new" ELSE "new_nocookies")
                      ELSE file
         IN  IF o.state # "cookies" THEN after ELSE "new"

\* (mutant) the age of the file is not looked at
Mut_BootstrapRuns_any_age(file, age) ==
    ~ (cf_mode # "manual" /\ bootstrap_mode = "skip")

BootstrapRuns(file, age) ==
    ~ (file # "absent" /\ age < storage_state_ttl)
    /\ ~ (cf_mode # "manual" /\ bootstrap_mode = "skip")

\* One pass of the manual bootstrap's loop: what the operator typed, what the
\* page looked like (ready: no challenge title, readyState complete and the
\* main section there; gone: the page can no longer be queried), and the
\* status of the verification request (0: the request failed).
Confirmation(response, page, status) ==
    [response |-> response, page |-> page, status |-> status]

NoConfirmation == Confirmation("none", "none", 0)

Confirmations ==
    {Confirmation(response, page, status) :
        response \in {"skip", ""}, page \in {"ready", "loading", "gone"},
        status \in {200, 403, 0}}

\* (mutant) the verification status is not looked at
Mut_Confirm_any_status(c) ==
    IF c.response = "skip" THEN "skip"
    ELSE IF c.page = "gone" THEN "raise"
    ELSE IF c.page = "ready" THEN "accept"
    ELSE "again"

\* What the loop does with a confirmation
Confirm(c) ==
    IF c.response = "skip" THEN "skip"
    ELSE IF c.page = "gone" THEN "raise"
    ELSE IF c.page = "ready"
    THEN (IF c.status = 200 THEN "accept" ELSE "again")
    ELSE "again"

\* the outcomes of the manual bootstrap that a decision of the loop leads to
DecidedOutcomes(decision) ==
    {o \in ManualOutcomes :
        IF decision = "raise" THEN o.raised
        ELSE IF decision = "skip" THEN ~ o.raised /\ ~ o.wrote
        ELSE IF decision = "accept" THEN o.wrote
        ELSE FALSE}

BootstrapOutcomes == IF cf_mode = "manual" THEN ManualOutcomes ELSE AutoOutcomes

\* A step of start_requests once a bootstrap runs
Step(op, content) == [op |-> op, content |-> content]

\* path.write_text: the file is opened for writing, which empties it, and
\* the text is written into it afterwards
WriteText(content) == <<Step("truncate", "partial"), Step("write", content)>>

\* (mutant) the first request is yielded before the bootstrap has written
\* its state and closed its browser
Mut_Plan_yield_first(o) ==
    (IF o.launched THEN <<Step("launch", "none")>> ELSE <<>>)
    \o (IF o.raised THEN <<Step("raise", "none")>> ELSE <<Step("yield", "none")>>)
    \o (IF o.wrote
        THEN WriteText(IF o.state = "cookies" THEN "new" ELSE "new_nocookies")
        ELSE <<>>)
    \o (IF o.closed THEN <<Step("close", "none")>> ELSE <<>>)

\* The steps of start_requests when the bootstrap ends as `o`: the browser is
\* launched, the manual bootstrap writes the state it captured, the browser is
\* closed (or left), _ensure_storage_state writes a state that has cookies,
\* and the request for board page 0 is yielded.
Plan(o) ==
    (IF o.launched THEN <<Step("launch", "none")>> ELSE <<>>)
    \o (IF o.wrote
        THEN WriteText(IF o.state = "cookies" THEN "new" ELSE "new_nocookies")
        ELSE <<>>)
    \o (IF o.closed THEN <<Step("close", "none")>> ELSE <<>>)
    \o (IF o.raised THEN <<Step("raise", "none")>>
        ELSE (IF o.state = "cookies" THEN WriteText("new") ELSE <<>>)
             \o <<Step("yield", "none")>>)

-----------------------------------------------------------------------------
(* The crawl *)

Saturate(n) == IF n >= CountCap THEN CountCap ELSE n + 1

\* op: the handler; status: the response status; result: what the handler
\* did with it; dedup: it skipped a topic row that was already seen.
Event(op, status, result, dedup) ==
    [op |-> op, status |-> status, result |-> result, dedup |-> dedup]

FirstRequest(file) ==
    Request(Url("board", board_id, 0), "parse_board",
            _build_meta(file, [board_offset |-> 0, cf_retry |-> 0], FALSE))

\* start_requests: _ensure_storage_state, then the request for board page 0.
\* When a bootstrap has to run, the call blocks in it: its steps follow one by
\* one (BootstrapStep) and nothing else of the spider runs meanwhile.
StartRequests ==
    /\ pc = "init"
    /\ \E o \in BootstrapOutcomes :
          IF BootstrapRuns(state_file, state_age)
          THEN /\ pc' = "bootstrap"
               \* the manual bootstrap that gets as far as its prompt ends
               \* as the operator's confirmations decide (ManualPrompt)
               /\ IF cf_mode = "manual" /\ ~ o.raised
                  THEN /\ todo' = <<Step("launch", "none"), Step("prompt", "none")>>
                       /\ outcome' = NoOutcome
                  ELSE /\ todo' = Plan(o)
                       /\ outcome' = o
               /\ bootstraps' = bootstraps + 1
               /\ last' = Event("start_requests", 0, "bootstrap", FALSE)
               /\ UNCHANGED <<state_file, pending>>
          ELSE /\ pc' = "running"
               /\ last' = Event("start_requests", 0, "started", FALSE)
               /\ state_file' = _ensure_storage_state(state_file, state_age, o)
               /\ pending' = {FirstRequest(state_file')}
               /\ UNCHANGED <<todo, bootstraps, outcome>>
    /\ UNCHANGED <<state_age, board_pages_processed, topic_seen, board_metadata_emitted,
                   board_infos_emitted,
                   summaries_emitted, topics_scheduled, topic_pages_done, advertised,
                   watched, fetches,
                   bootstrap_driver, browser, prompts, confirmation>>
    /\ UNCHANGED confVars
    /\ UNCHANGED <<fnVars, postVars, storeVars>>

\* The next step of a start_requests that runs a bootstrap
BootstrapStep ==
    /\ pc = "bootstrap"
    /\ todo # <<>>
    /\ Head(todo).op # "prompt"
    /\ LET step == Head(todo)
       IN  /\ todo' = Tail(todo)
           /\ browser' = IF step.op = "launch" THEN "open"
                         ELSE IF step.op = "close" THEN "closed"
                         ELSE browser
           \* only _auto_bootstrap keeps its driver in self.bootstrap_driver
           /\ bootstrap_driver' = IF step.op = "launch" THEN cf_mode # "manual"
                                  ELSE IF step.op = "close" THEN FALSE
                                  ELSE bootstrap_driver
           /\ state_file' = IF step.op \in {"truncate", "write"} THEN step.content
                            ELSE state_file
           /\ pc' = IF step.op = "raise" THEN "failed"
                    ELSE IF step.op = "yield" THEN "running"
                    ELSE pc
           /\ pending' = IF step.op = "yield" THEN {FirstRequest(state_file)}
                         ELSE pending
           /\ last' = Event("start_requests", 0,
                            IF step.op = "raise" THEN "raised"
                            ELSE IF step.op = "yield" THEN "started"
                            ELSE step.op,
                            FALSE)
           \* the locals of the bootstrap are gone once start_requests goes on
           /\ prompts' = IF step.op \in {"raise", "yield"} THEN 0 ELSE prompts
           /\ confirmation' = IF step.op \in {"raise", "yield"} THEN NoConfirmation
                               ELSE confirmation
    /\ UNCHANGED <<state_age, board_pages_processed, topic_seen, board_metadata_emitted,
                   board_infos_emitted,
                   summaries_emitted, topics_scheduled, topic_pages_done, advertised,
                   watched, fetches, bootstraps, outcome>>
    /\ UNCHANGED confVars
    /\ UNCHANGED <<fnVars, postVars, storeVars>>

\* The manual bootstrap prompts and looks at what it got
ManualPrompt ==
    /\ pc = "bootstrap"
    /\ todo # <<>>
    /\ Head(todo).op = "prompt"
    /\ \E c \in Confirmations :
          LET decision == Confirm(c)
          IN  /\ confirmation' = c
              /\ last' = Event("manual_prompt", c.status, decision, FALSE)
              /\ IF decision = "again"
                 THEN /\ prompts < MaxPrompts
                      /\ prompts' = prompts + 1
                      /\ UNCHANGED <<todo, outcome>>
                 ELSE /\ \E o \in DecidedOutcomes(decision) :
                            /\ outcome' = o
                            /\ todo' = Tail(Plan(o))
                      /\ UNCHANGED prompts
    /\ UNCHANGED <<state_file, state_age, pc, pending, board_pages_processed, topic_seen,
                   board_metadata_emitted,
                   board_infos_emitted, summaries_emitted, topics_scheduled,
                   topic_pages_done, advertised, watched, fetches,
                   bootstrap_driver, browser, bootstraps>>
    /\ UNCHANGED confVars
    /\ UNCHANGED <<fnVars, postVars, storeVars>>

\* spider_closed: the crawl has nothing left to fetch, or start_requests raised
SpiderClosed ==
    /\ \/ pc = "running" /\ pending = {}
       \/ pc = "failed"
    /\ pc' = "closed"
    /\ browser' = IF bootstrap_driver THEN "closed" ELSE browser
    /\ bootstrap_driver' = FALSE
    /\ last' = Event("spider_closed", 0, "closed", FALSE)
    /\ advertised' = {}
    /\ UNCHANGED <<state_file, state_age, board_pages_processed, topic_seen,
                   board_metadata_emitted,
                   board_infos_emitted, pending, summaries_emitted,
                   topics_scheduled, topic_pages_done, watched, fetches, todo,
                   bootstraps, outcome, prompts, confirmation>>
    /\ UNCHANGED confVars
    /\ UNCHANGED <<fnVars, postVars, storeVars>>

\* The pages the forum can answer with: the topic rows of a board page (the
\* topic id of each row that has a subject link) and the pagination anchors.
Link(param, ident, offset) == [param |-> param, ident |-> ident, offset |-> offset]

OtherParam(param) == IF param = "board" THEN "topic" ELSE "board"

\* Anchors that are not pagination of (param, ident): another identifier,
\* the other parameter, an entry without a numeric offset.
ForeignLinks(param, ident) ==
    {Link(param, "999", DefaultStep * MaxPage(param)),
     Link(OtherParam(param), ident, DefaultStep * MaxPage(param)),
     Link(param, ident, NoOffset)}

\* What a page says about its own pagination: the offsets beyond `current`
\* that its anchors for (param, ident) lead to.
Advertised(links, param, ident, current) ==
    {l.offset : l \in {m \in links : /\ m = Link(param, ident, m.offset)
                                     /\ m.offset > current}}

LinkSets(param, ident) ==
    {own \cup foreign :
        own \in SUBSET {Link(param, ident, o) : o \in Offsets(param)},
        foreign \in {{}, ForeignLinks(param, ident)}}

RowSeqs == UNION {[1..n -> Topics] : n \in 0..MaxRows}

TopicRequest(file, topic_id, offset) ==
    Request(Url("topic", topic_id, offset), "parse_topic",
            _build_meta(file,
                        [board_id |-> board_id, topic_id |-> topic_id,
                         topic_offset |-> offset, cf_retry |-> 0],
                        FALSE))

\* The topic loop of parse_board: rows in page order; a row already in
\* topic_seen is skipped, the loop breaks once max_topics ids are seen.
\* Returns the new topic_seen and the ids emitted, in order.
\* `skipped` tells whether some row was skipped as already seen.
RECURSIVE TopicLoopFrom(_, _, _, _)
TopicLoopFrom(rows, seen, emitted, skipped) ==
    IF rows = <<>> THEN [seen |-> seen, emitted |-> emitted, skipped |-> skipped]
    ELSE LET topic == Head(rows)
         IN  IF topic \in seen
             THEN TopicLoopFrom(Tail(rows), seen, emitted, TRUE)
             ELSE IF max_topics # 0 /\ Cardinality(seen) >= max_topics
             THEN [seen |-> seen, emitted |-> emitted, skipped |-> skipped]
             ELSE TopicLoopFrom(Tail(rows), seen \cup {topic}, Append(emitted, topic),
                                skipped)

\* (mutant) the loop without the topic_seen test
RECURSIVE Mut_TopicLoopNoDedup(_, _, _)
Mut_TopicLoopNoDedup(rows, seen, emitted) ==
    IF rows = <<>> THEN [seen |-> seen, emitted |-> emitted, skipped |-> FALSE]
    ELSE IF max_topics # 0 /\ Cardinality(seen) >= max_topics
         THEN [seen |-> seen, emitted |-> emitted, skipped |-> FALSE]
         ELSE Mut_TopicLoopNoDedup(Tail(rows), seen \cup {Head(rows)},
                                   Append(emitted, Head(rows)))

Mut_TopicLoop(rows, seen) == Mut_TopicLoopNoDedup(rows, seen, <<>>)

\* (mutant) the topic cap tested with > instead of >=
RECURSIVE Mut_TopicLoopCapFrom(_, _, _, _)
Mut_TopicLoopCapFrom(rows, seen, emitted, skipped) ==
    IF rows = <<>> THEN [seen |-> seen, emitted |-> emitted, skipped |-> skipped]
    ELSE LET topic == Head(rows)
         IN  IF topic \in seen
             THEN Mut_TopicLoopCapFrom(Tail(rows), seen, emitted, TRUE)
             ELSE IF max_topics # 0 /\ Cardinality(seen) > max_topics
             THEN [seen |-> seen, emitted |-> emitted, skipped |-> skipped]
             ELSE Mut_TopicLoopCapFrom(Tail(rows), seen \cup {topic},
                                       Append(emitted, topic), skipped)

Mut_TopicLoopCap(rows, seen) == Mut_TopicLoopCapFrom(rows, seen, <<>>, FALSE)

TopicLoop(rows, seen) == TopicLoopFrom(rows, seen, <<>>, FALSE)

Occurrences(seq, x) == Cardinality({i \in DOMAIN seq : seq[i] = x})

Bump(counter, emitted) ==
    [t \in Topics |->
        IF counter[t] + Occurrences(emitted, t) >= CountCap
        THEN CountCap ELSE counter[t] + Occurrences(emitted, t)]

\* (mutant) the board cap tested with > instead of >=
Mut_NextBoardRequest_gt(file, processed, board_offset, links) ==
    LET offsets  == collect_offsets(links, "board", board_id)
        step     == detect_step(offsets, DefaultStep)
        next_off == next_offset(offsets, board_offset)
    IN  IF max_board_pages # 0 /\ processed > max_board_pages THEN {}
        ELSE IF next_off = None THEN {}
        ELSE {Request(Url("board", board_id, next_off), "parse_board",
                      _build_meta(file,
                                  [board_offset |-> next_off, board_step |-> step,
                                   cf_retry |-> 0],
                                  FALSE))}

\* The next-page request of parse_board (empty when traversal stops)
NextBoardRequest(file, processed, board_offset, links) ==
    LET offsets  == collect_offsets(links, "board", board_id)
        step     == detect_step(offsets, DefaultStep)
        next_off == next_offset(offsets, board_offset)
    IN  IF max_board_pages # 0 /\ processed >= max_board_pages THEN {}
        ELSE IF next_off = None THEN {}
        ELSE {Request(Url("board", board_id, next_off), "parse_board",
                      _build_meta(file,
                                  [board_offset |-> next_off, board_step |-> step,
                                   cf_retry |-> 0],
                                  FALSE))}

\* (mutant) board info is built on every board page
Mut_BoardInfoYield_always(emitted) == 1

\* The BoardInfoItems parse_board yields for a page: _build_board_info always
\* returns an item, and it is asked only while board_metadata_emitted is unset
BoardInfoYield(emitted) == IF ~ emitted THEN 1 ELSE 0

\* The pages a run may ask for, and no page at all
Pages ==
    {Url("board", board_id, o) : o \in Offsets("board")}
        \cup {Url("topic", t, o) : t \in Topics, o \in Offsets("topic")}

NoPage == Url("none", "none", 0)

\* The pages picked for counting: the board's and those of one topic, the
\* topics being alike
WatchedTopic == "101"
WatchedPages == {p \in Pages : p.param = "topic" => p.ident = WatchedTopic}

\* The count of responses for the watched page once request r is answered;
\* it stops one above the largest number a page can be fetched
Fetched(r) ==
    IF r.url = watched /\ fetches < cf_max_retries + 2 THEN fetches + 1 ELSE fetches

\* parse_board on the response to request r
ParseBoard(r, status, rows, links) ==
    /\ pc = "running"
    /\ r \in pending
    /\ r.callback = "parse_board"
    /\ IF status \in ChallengeStatuses
       THEN LET retry == _retry_with_new_context(state_file, r)
            IN  /\ pending' = (pending \ {r}) \cup retry
                /\ last' = Event("parse_board", status,
                                 IF retry = {} THEN "giveup" ELSE "retry", FALSE)
                /\ advertised' = {}
                /\ UNCHANGED <<board_pages_processed, topic_seen, board_metadata_emitted,
                   board_infos_emitted,
                               summaries_emitted, topics_scheduled>>
       ELSE LET board_offset == Get(r.meta, "board_offset", 0)
                loop         == TopicLoop(rows, topic_seen)
                topicReqs    == IF fetch_posts
                                THEN {TopicRequest(state_file, loop.emitted[i], 0) :
                                         i \in DOMAIN loop.emitted}
                                ELSE {}
            IN  /\ board_metadata_emitted' = TRUE
                /\ board_infos_emitted' =
                      board_infos_emitted + BoardInfoYield(board_metadata_emitted)
                /\ topic_seen' = loop.seen
                /\ summaries_emitted' = Bump(summaries_emitted, loop.emitted)
                /\ topics_scheduled' = IF fetch_posts
                                       THEN Bump(topics_scheduled, loop.emitted)
                                       ELSE topics_scheduled
                /\ board_pages_processed' = board_pages_processed + 1
                /\ pending' = (pending \ {r}) \cup topicReqs
                                 \cup NextBoardRequest(state_file,
                                                       board_pages_processed + 1,
                                                       board_offset, links)
                /\ last' = Event("parse_board", status, "page", loop.skipped)
                /\ advertised' = Advertised(links, "board", board_id, board_offset)
    /\ fetches' = Fetched(r)
    /\ UNCHANGED <<state_file, state_age, pc, topic_pages_done, watched>>
    /\ UNCHANGED bootVars
    /\ UNCHANGED confVars
    /\ UNCHANGED <<fnVars, postVars, storeVars>>

\* The next-page request of parse_topic (empty when traversal stops)
NextTopicRequest(file, r, links) ==
    LET topic_id   == r.meta["topic_id"]
        offset     == Get(r.meta, "topic_offset", 0)
        pages_seen == Get(r.meta, "pages_seen", 0) + 1
        offsets    == collect_offsets(links, "topic", topic_id)
        next_off   == next_offset(offsets, offset)
    IN  IF topic_max_pages # 0 /\ pages_seen >= topic_max_pages THEN {}
        ELSE IF next_off = None THEN {}
        ELSE {Request(Url("topic", topic_id, next_off), "parse_topic",
                      _build_meta(file,
                                  [board_id |-> r.meta["board_id"],
                                   topic_id |-> topic_id,
                                   topic_offset |-> next_off,
                                   pages_seen |-> pages_seen,
                                   cf_retry |-> 0],
                                  FALSE))}

\* parse_topic on the response to request r
ParseTopic(r, status, links) ==
    /\ pc = "running"
    /\ r \in pending
    /\ r.callback = "parse_topic"
    /\ IF status \in ChallengeStatuses
       THEN LET retry == _retry_with_new_context(state_file, r)
            IN  /\ pending' = (pending \ {r}) \cup retry
                /\ last' = Event("parse_topic", status,
                                 IF retry = {} THEN "giveup" ELSE "retry", FALSE)
                /\ advertised' = {}
                /\ UNCHANGED topic_pages_done
       ELSE /\ topic_pages_done' =
                  [topic_pages_done EXCEPT ![r.meta["topic_id"]] = @ + 1]
            /\ pending' = (pending \ {r}) \cup NextTopicRequest(state_file, r, links)
            /\ last' = Event("parse_topic", status, "page", FALSE)
            /\ advertised' = Advertised(links, "topic", r.meta["topic_id"],
                                        Get(r.meta, "topic_offset", 0))
    /\ fetches' = Fetched(r)
    /\ UNCHANGED <<state_file, state_age, pc, board_pages_processed, topic_seen,
                   board_metadata_emitted,
                   board_infos_emitted, summaries_emitted, topics_scheduled, watched>>
    /\ UNCHANGED bootVars
    /\ UNCHANGED confVars
    /\ UNCHANGED <<fnVars, postVars, storeVars>>

\* A response whose status is not in handle_httpstatus_list and not 2xx never
\* reaches the callback: the request ends there.
HttpErrorStatus == 404

HttpError(r) ==
    /\ pc = "running"
    /\ r \in pending
    /\ pending' = pending \ {r}
    /\ last' = Event("http_error", HttpErrorStatus, "dropped", FALSE)
    /\ advertised' = {}
    /\ UNCHANGED bootVars
    /\ UNCHANGED <<state_file, state_age, pc, board_pages_processed, topic_seen,
                   board_metadata_emitted,
                   board_infos_emitted, summaries_emitted,
                   topics_scheduled, topic_pages_done, watched>>
    /\ fetches' = Fetched(r)
    /\ UNCHANGED confVars
    /\ UNCHANGED <<fnVars, postVars, storeVars>>

\* Configurations drawn for a run: the caps are None (0) or 1..MaxCap, at
\* most one of the three being set in a run.
CapChoices ==
    {c \in [board : 0..MaxCap, topics : 0..MaxCap, pages : 0..MaxCap] :
        Cardinality({k \in {"board", "topics", "pages"} : c[k] # 0}) <= 1}

\* __init__: ValueError for a challenge mode that is not auto or manual; the
\* bootstrap mode is stored as given
__init__(mode, bootstrap) ==
    IF mode \notin {"auto", "manual"} THEN "rejected" ELSE "init"

InitSpider ==
    /\ pc = __init__(cf_mode, bootstrap_mode)
    /\ board_pages_processed = 0
    /\ topic_seen = {}
    /\ board_metadata_emitted = FALSE
    /\ board_infos_emitted = 0
    /\ fetches = 0
    /\ pending = {}
    /\ summaries_emitted = [t \in Topics |-> 0]
    /\ topics_scheduled = [t \in Topics |-> 0]
    /\ topic_pages_done = [t \in Topics |-> 0]
    /\ last = Event("init", 0, "none", FALSE)
    /\ advertised = {}
    /\ todo = <<>>
    /\ bootstrap_driver = FALSE
    /\ browser = "none"
    /\ bootstraps = 0
    /\ outcome = NoOutcome
    /\ prompts = 0
    /\ confirmation = NoConfirmation

\* the parts of the state a specification does not exercise
IdleFn ==
    /\ fn_links = {}
    /\ fn_offsets = {}
    /\ fn_current = 0
    /\ fn_default = DefaultStep
    /\ fn_out = [op |-> "none", value |-> None]

IdlePosts ==
    /\ page_offset = 0
    /\ page_wrappers = <<>>
    /\ posts_out = <<>>

\* A dict with no entries ({} in the source)
EmptyDict == EmptyMeta

\* PostStorePipeline.__init__: empty buffers; the data directory holds no file
NewBuffers ==
    [board_info |-> EmptyDict, topic_summaries |-> EmptyDict, topic_posts |-> EmptyDict]

IdleStore ==
    /\ board_info = EmptyDict
    /\ topic_summaries = EmptyDict
    /\ topic_posts = EmptyDict
    /\ data_dir = EmptyDict
    /\ store_pc = "closed"
    /\ now = 0
    /\ accepted = 0
    /\ accept_log = <<>>
    /\ flushed_from = EmptyDict
    /\ prev_input = NewBuffers

\* The crawl: every traversal configuration, no artifact on disk and the
\* automated bootstrap skipped (manual mode runs its bootstrap all the same).
Init ==
    /\ cf_mode \in {"auto", "manual"}
    /\ fetch_posts \in BOOLEAN
    /\ \E c \in CapChoices :
          /\ max_board_pages = c.board
          /\ max_topics = c.topics
          /\ topic_max_pages = c.pages
    /\ bootstrap_mode = "skip"
    /\ storage_state_ttl = MaxTtl
    /\ state_file = "absent"
    /\ state_age = 0
    /\ InitSpider
    /\ watched = NoPage
    /\ IdleFn
    /\ IdlePosts
    /\ IdleStore

\* The session artifact: every artifact state, ttl and bootstrap mode, with a
\* crawl of one board page and one page of each topic it lists.
InitSession ==
    /\ cf_mode \in {"auto", "manual"}
    /\ bootstrap_mode \in {"auto", "skip"}
    /\ storage_state_ttl \in 1..MaxTtl
    /\ state_file \in {"absent", "old"}
    /\ state_age \in 0..MaxAge
    /\ state_file = "absent" => state_age = 0
    /\ fetch_posts = TRUE
    /\ max_board_pages = 1
    /\ max_topics = 2
    /\ topic_max_pages = 1
    /\ InitSpider
    /\ watched = NoPage
    /\ IdleFn
    /\ IdlePosts
    /\ IdleStore

\* Construction with any mode arguments, valid or not, no artifact on disk
ModeArgs == {"auto", "manual", "skip", "bogus"}

InitConfig ==
    /\ cf_mode \in ModeArgs
    /\ bootstrap_mode \in ModeArgs
    /\ storage_state_ttl = MaxTtl
    /\ state_file = "absent"
    /\ state_age = 0
    /\ fetch_posts = TRUE
    /\ max_board_pages = 1
    /\ max_topics = 1
    /\ topic_max_pages = 1
    /\ InitSpider
    /\ watched = NoPage
    /\ IdleFn
    /\ IdlePosts
    /\ IdleStore

\* The crawl on its own: a fresh artifact on disk, so that start_requests
\* runs no bootstrap, no cap on the pages of the board or of a topic, one
\* topic fetched, and one page of the run picked to have its responses
\* counted.
InitCrawl ==
    /\ cf_mode \in {"auto", "manual"}
    /\ bootstrap_mode = "auto"
    /\ storage_state_ttl = MaxTtl
    /\ state_file = "old"
    /\ state_age = 0
    /\ fetch_posts = TRUE
    /\ max_board_pages = 0
    /\ max_topics = 1
    /\ topic_max_pages = 0
    /\ InitSpider /\ watched \in WatchedPages
    /\ IdleFn
    /\ IdlePosts
    /\ IdleStore

\* A challenged response carries no forum page; a page comes with the others.
BoardChallenged ==
    \E r \in pending, status \in ChallengeStatuses :
        ParseBoard(r, status, <<>>, {})

\* (mutant) every status is handed to parse_board, as with
\* handle_httpstatus_all
Mut_BoardPage_any_status ==
    \E r \in pending, status \in {200, HttpErrorStatus},
       rows \in RowSeqs, links \in LinkSets("board", board_id) :
        ParseBoard(r, status, rows, links)

BoardPage ==
    \E r \in pending, status \in HandledStatuses \ ChallengeStatuses,
       rows \in RowSeqs, links \in LinkSets("board", board_id) :
        ParseBoard(r, status, rows, links)

TopicChallenged ==
    \E r \in pending, status \in ChallengeStatuses :
        ParseTopic(r, status, {})

TopicPage ==
    \E r \in pending, status \in HandledStatuses \ ChallengeStatuses :
        \E links \in LinkSets("topic", r.url.ident) :
            ParseTopic(r, status, links)

DoHttpError == \E r \in pending : HttpError(r)

Next ==
    \/ StartRequests
    \/ BootstrapStep
    \/ ManualPrompt
    \/ BoardChallenged
    \/ BoardPage
    \/ TopicChallenged
    \/ TopicPage
    \/ DoHttpError
    \/ SpiderClosed

vars == <<confVars, crawlVars, fnVars, postVars, storeVars>>

Spec == Init /\ [][Next]_vars

SpecSession == InitSession /\ [][Next]_vars

SpecConfig == InitConfig /\ [][Next]_vars

\* The crawl with no bootstrap in it.  The engine answers every request it
\* holds and closes the spider when it holds none, so a step that can be
\* taken is taken in the end.
NextCrawl ==
    \/ StartRequests
    \/ BoardChallenged
    \/ BoardPage
    \/ TopicChallenged
    \/ TopicPage
    \/ DoHttpError
    \/ SpiderClosed

SpecLive == InitCrawl /\ [][NextCrawl]_vars /\ WF_vars(NextCrawl)

-----------------------------------------------------------------------------
(* The offset frontier on its own: utils.py called on drawn inputs *)

OffsetPool == {0, 25, 50, 100} \cup {10 * k : k \in 1..MaxTens}
Defaults   == {DefaultStep} \cup 1..MaxDefault

IdleSpider ==
    /\ cf_mode = "auto"
    /\ bootstrap_mode = "skip"
    /\ fetch_posts = TRUE
    /\ max_board_pages = 0
    /\ max_topics = 0
    /\ topic_max_pages = 0
    /\ storage_state_ttl = MaxTtl
    /\ state_file = "absent"
    /\ state_age = 0
    /\ InitSpider
    /\ watched = NoPage

InitFn ==
    /\ fn_links = {}
    /\ fn_offsets \in SUBSET OffsetPool
    /\ fn_current \in OffsetPool
    /\ fn_default \in Defaults
    /\ fn_out = [op |-> "none", value |-> None]
    /\ IdleSpider
    /\ IdlePosts
    /\ IdleStore

\* anchors of a page of topic "101": its own pagination, and foreign ones
FnLinkSets ==
    {own \cup foreign :
        own \in SUBSET {Link("topic", "101", o) : o \in {0, 25, 50, 100}},
        foreign \in {{}, ForeignLinks("topic", "101")}}

CallCollectOffsets ==
    /\ \E links \in FnLinkSets :
          /\ fn_links' = links
          /\ fn_offsets' = collect_offsets(links, "topic", "101")
    /\ fn_out' = [op |-> "collect_offsets", value |-> None]
    /\ UNCHANGED <<fn_current, fn_default>>
    /\ UNCHANGED <<confVars, crawlVars, postVars, storeVars>>

CallDetectStep ==
    /\ fn_out' = [op |-> "detect_step", value |-> detect_step(fn_offsets, fn_default)]
    /\ UNCHANGED <<fn_links, fn_offsets, fn_current, fn_default>>
    /\ UNCHANGED <<confVars, crawlVars, postVars, storeVars>>

CallNextOffset ==
    /\ fn_out' = [op |-> "next_offset", value |-> next_offset(fn_offsets, fn_current)]
    /\ UNCHANGED <<fn_links, fn_offsets, fn_current, fn_default>>
    /\ UNCHANGED <<confVars, crawlVars, postVars, storeVars>>

\* the traversal moves to the offset next_offset returned
Advance ==
    /\ fn_out.op = "next_offset"
    /\ fn_out.value # None
    /\ fn_current' = fn_out.value
    /\ fn_out' = [op |-> "none", value |-> None]
    /\ UNCHANGED <<fn_links, fn_offsets, fn_default>>
    /\ UNCHANGED <<confVars, crawlVars, postVars, storeVars>>

NextFn ==
    \/ CallCollectOffsets
    \/ CallDetectStep
    \/ CallNextOffset
    \/ Advance

SpecFn == InitFn /\ [][NextFn]_vars

-----------------------------------------------------------------------------
(* _extract_posts on its own: tech_talk.py 641-727 on drawn topic pages *)

\* A wrapper is a post ("post": it has div.post div.inner with id msg_<id>),
\* or lacks the content element, or its content id does not start with msg_.
WrapperKinds == {"post", "no_content", "no_msg_id"}
PageOffsets  == {0, 5, DefaultStep}
WrapperSeqs  == UNION {[1..n -> WrapperKinds] : n \in 0..MaxWrappers}

\* the post id carried by the i-th wrapper of the page at `offset`
PostIdAt(offset, i) == 5000 + offset + i

\* (mutant) the position forgets the page's starting offset
Mut_extract_posts_no_offset(wrappers, offset) ==
    LET kept == {i \in DOMAIN wrappers : wrappers[i] = "post"}
        nth(k) == CHOOSE i \in kept : Cardinality({j \in kept : j < i}) = k - 1
    IN  [k \in 1..Cardinality(kept) |->
            [post_id |-> PostIdAt(offset, nth(k)), position |-> (nth(k) - 1) + 1]]

\* _extract_posts: enumerate(wrappers) gives idx = i - 1 for the i-th
\* wrapper; skipped wrappers yield nothing but still advance idx.
_extract_posts(wrappers, offset) ==
    LET kept == {i \in DOMAIN wrappers : wrappers[i] = "post"}
        nth(k) == CHOOSE i \in kept : Cardinality({j \in kept : j < i}) = k - 1
    IN  [k \in 1..Cardinality(kept) |->
            [post_id |-> PostIdAt(offset, nth(k)),
             position |-> offset + (nth(k) - 1) + 1]]

InitPosts ==
    /\ page_offset \in PageOffsets
    /\ page_wrappers \in WrapperSeqs
    /\ posts_out = <<>>
    /\ IdleSpider
    /\ IdleFn
    /\ IdleStore

ExtractPosts ==
    /\ posts_out' = _extract_posts(page_wrappers, page_offset)
    /\ UNCHANGED <<page_offset, page_wrappers>>
    /\ UNCHANGED <<confVars, crawlVars, fnVars, storeVars>>

\* the next page of the topic is fetched
NextTopicPage ==
    /\ \E o \in PageOffsets, w \in WrapperSeqs :
          /\ o > page_offset
          /\ page_offset' = o
          /\ page_wrappers' = w
    /\ posts_out' = <<>>
    /\ UNCHANGED <<confVars, crawlVars, fnVars, storeVars>>

NextPosts ==
    \/ ExtractPosts
    \/ NextTopicPage

SpecPosts == InitPosts /\ [][NextPosts]_vars

-----------------------------------------------------------------------------
(* SpecStore: PostStorePipeline over one data directory, run after run *)

\* A file is held as the JSON value written to it.  The payloads are dicts of
\* strings, integers and lists of such dicts, which json.load gives back as
\* json.dump received them; a dict is a function from its keys, a list a
\* sequence.  The clock is read per run: every iso_now of a run returns the
\* same instant, a later run a later one.

\* Identifiers are Python strings: a tuple of digits stands for the string,
\* so that "10" sorts before "9" as str comparison has it.
TopicIds == {<<9>>, <<1, 0>>, <<1, 1>>}
PostTopics == {<<9>>}
PostIds == {<<7>>, <<1, 2>>}
BoardNames == {"Tech Talk", "Tech"}
BoardPosts == 5
SummaryOffsets == {0, DefaultStep}
Positions == {1, 2}

\* str < str
StrLess(a, b) ==
    \E k \in 1..(Len(a) + 1) :
        /\ k <= Len(b)
        /\ \A j \in 1..(k - 1) : a[j] = b[j]
        /\ (k = Len(a) + 1 \/ a[k] < b[k])

\* (int, str) < (int, str)
KeyLess(x, y) == x[1] < y[1] \/ (x[1] = y[1] /\ StrLess(x[2], y[2]))

Item(cls, fields) == [cls |-> cls, fields |-> fields]

\* asdict() holds the fields that were set: `posts` stands for a field that
\* one record has and another lacks
BoardInfoItems ==
    {Item("BoardInfoItem", [board_id |-> board_id, name |-> n]) : n \in BoardNames}
    \cup {Item("BoardInfoItem",
                [board_id |-> board_id, name |-> "Tech Talk", posts |-> BoardPosts])}

TopicSummaryItems ==
    {Item("TopicSummaryItem",
          [board_id |-> board_id, topic_id |-> t, board_offset |-> o]) :
        t \in TopicIds, o \in SummaryOffsets}

PostItems ==
    {Item("PostItem",
          [board_id |-> board_id, topic_id |-> t, post_id |-> p, position |-> n]) :
        t \in PostTopics, p \in PostIds, n \in Positions}

Items == BoardInfoItems \cup TopicSummaryItems \cup PostItems

iso_now == now

\* (mutant) a key that is already there keeps its value
Mut_Put_first_wins(d, key, value) ==
    [k \in (DOMAIN d) \cup {key} |-> IF k \in DOMAIN d THEN d[k] ELSE value]

\* d[key] = value on a dict
Put(d, key, value) == [k \in (DOMAIN d) \cup {key} |-> IF k = key THEN value ELSE d[k]]

\* process_item: the three buffers after the item is accepted
process_item(buffers, item) ==
    LET payload == Update(item.fields, [fetched_at |-> iso_now])
    IN  IF item.cls = "BoardInfoItem"
        THEN [buffers EXCEPT !.board_info = Put(@, payload.board_id, payload)]
        ELSE IF item.cls = "TopicSummaryItem"
        THEN [buffers EXCEPT !.topic_summaries =
                 Put(@, payload.board_id,
                     Put(Get(@, payload.board_id, EmptyDict), payload.topic_id, payload))]
        ELSE IF item.cls = "PostItem"
        THEN LET key == <<payload.board_id, payload.topic_id>>
             IN  [buffers EXCEPT !.topic_posts =
                     Put(@, key, Put(Get(@, key, EmptyDict), payload.post_id, payload))]
        ELSE buffers

\* Paths under the data directory (_board_dir and the file names)
NoTopic == <<>>
BoardInfoFile(b) == [board |-> b, name |-> "board_info.json", topic |-> NoTopic]
IndexFile(b)     == [board |-> b, name |-> "topics_index.json", topic |-> NoTopic]
TopicFile(b, t)  == [board |-> b, name |-> "topics", topic |-> t]

\* A stored file that is not what the pipeline writes: text that is not JSON
\* ("syntax"), a non-empty JSON list ("list"), a JSON object whose entries
\* lack their id key ("no_id"), a file that cannot be opened or decoded
\* ("unreadable").
Corrupt(kind) == [corrupt |-> kind]

CorruptKinds == {"syntax", "list", "no_id", "unreadable"}

IsCorrupt(files, path) == path \in DOMAIN files /\ "corrupt" \in DOMAIN files[path]

\* _load_json: the default for a file that is not there, and for one that
\* json.load rejects with JSONDecodeError
_load_json(files, path, default) ==
    IF path \notin DOMAIN files THEN default
    ELSE IF IsCorrupt(files, path) /\ files[path].corrupt = "syntax" THEN default
    ELSE files[path]

\* Loading and reading `path` in close_spider raises: only JSONDecodeError is
\* caught, so an unreadable file raises in _load_json (OSError,
\* UnicodeDecodeError), a list has no .get (AttributeError) and an entry
\* without its id key fails in the dict comprehension (KeyError).
LoadRaises(files, path) ==
    IsCorrupt(files, path) /\ files[path].corrupt # "syntax"

\* {e[id]: e for e in entries}: the last entry of an id wins
ById(entries, id) ==
    [i \in {entries[k][id] : k \in DOMAIN entries} |->
        entries[CHOOSE k \in DOMAIN entries :
                    /\ entries[k][id] = i
                    /\ \A j \in DOMAIN entries : j > k => entries[j][id] # i]]

\* sorted(d.values(), key=...): `key` gives the sort key of each entry
RECURSIVE SortedFrom(_, _, _)
SortedFrom(ids, d, key) ==
    IF ids = {} THEN <<>>
    ELSE LET m == CHOOSE i \in ids : \A j \in ids \ {i} : KeyLess(key[i], key[j])
         IN  <<d[m]>> \o SortedFrom(ids \ {m}, d, key)

\* (mutant) the index sorted by topic id alone
Mut_TopicKey(t) == <<0, t.topic_id>>

TopicKey(t) == <<Get(t, "board_offset", 0), t.topic_id>>

\* (mutant) the posts sorted by post id alone
Mut_PostKey(p) == <<0, p.post_id>>

PostKey(p) == <<Get(p, "position", 0), p.post_id>>

\* (mutant) the total added to the stored one
Mut_PostsTotal(existing, stored_posts) ==
    Get(existing, "posts_total", 0) + Cardinality(DOMAIN stored_posts)

PostsTotal(existing, stored_posts) == Cardinality(DOMAIN stored_posts)

\* The topics_index.json payload of close_spider for one board
IndexPayload(files, buffers, b) ==
    LET topics        == buffers.topic_summaries[b]
        existing      == _load_json(files, IndexFile(b), EmptyDict)
        stored_topics == Update(ById(Get(existing, "topics", <<>>), "topic_id"), topics)
        payload       == [board_id |-> b,
                          collected_at |-> iso_now,
                          topics |-> SortedFrom(DOMAIN stored_topics, stored_topics,
                                                [i \in DOMAIN stored_topics |->
                                                    TopicKey(stored_topics[i])])]
    IN  IF b \in DOMAIN buffers.board_info
        THEN Update(payload, [board_name |-> Get(buffers.board_info[b], "name", "null")])
        ELSE payload

\* The topics/<topic_id>.json payload of close_spider for one topic
TopicPayload(files, buffers, key) ==
    LET posts        == buffers.topic_posts[key]
        existing     == _load_json(files, TopicFile(key[1], key[2]), EmptyDict)
        stored_posts == Update(ById(Get(existing, "posts", <<>>), "post_id"), posts)
    IN  Update(existing,
               [board_id |-> key[1],
                topic_id |-> key[2],
                posts_total |-> PostsTotal(existing, stored_posts),
                updated_at |-> iso_now,
                posts |-> SortedFrom(DOMAIN stored_posts, stored_posts,
                                     [i \in DOMAIN stored_posts |->
                                         PostKey(stored_posts[i])])])

\* (mutant) the payload is merged into the stored file whatever `overwrite`
Mut_merge_json_merge(files, path, payload, overwrite) ==
    IF path \in DOMAIN files
    THEN Update(_load_json(files, path, EmptyDict), payload)
    ELSE payload

\* _merge_json: what is written to `path`
_merge_json(files, path, payload, overwrite) ==
    IF path \in DOMAIN files /\ ~ overwrite
    THEN Update(_load_json(files, path, EmptyDict), payload)
    ELSE payload

\* close_spider: the files after the three write loops.  board_info.json is
\* written with overwrite=True, so whatever was there is replaced.
close_spider(files, buffers) ==
    LET info_files  == {BoardInfoFile(b) : b \in DOMAIN buffers.board_info}
        index_files == {IndexFile(b) : b \in DOMAIN buffers.topic_summaries}
        topic_files == {TopicFile(k[1], k[2]) : k \in DOMAIN buffers.topic_posts}
    IN  [path \in (DOMAIN files) \cup info_files \cup index_files \cup topic_files |->
            IF path \in info_files
            THEN _merge_json(files, path, buffers.board_info[path.board], TRUE)
            ELSE IF path \in index_files THEN IndexPayload(files, buffers, path.board)
            ELSE IF path \in topic_files
            THEN TopicPayload(files, buffers, <<path.board, path.topic>>)
            ELSE files[path]]

Buffers ==
    [board_info |-> board_info, topic_summaries |-> topic_summaries,
     topic_posts |-> topic_posts]

\* The loop of close_spider that an exception leaves ("none": it completes).
\* The model has one board and one topic with posts, so the loop that raises
\* does so in its only pass.
RaisingLoop(files, buffers) ==
    IF \E b \in DOMAIN buffers.topic_summaries : LoadRaises(files, IndexFile(b))
    THEN "index"
    ELSE IF \E k \in DOMAIN buffers.topic_posts : LoadRaises(files, TopicFile(k[1], k[2]))
    THEN "topic"
    ELSE "none"

\* the part of the buffers whose loops ran to their end
Flushed(buffers, raising) ==
    IF raising = "index"
    THEN [buffers EXCEPT !.topic_summaries = EmptyDict, !.topic_posts = EmptyDict]
    ELSE IF raising = "topic"
    THEN [buffers EXCEPT !.topic_posts = EmptyDict]
    ELSE buffers

TimestampKeys == {"fetched_at", "collected_at", "updated_at"}

Drop(d, keys) == [k \in (DOMAIN d) \ keys |-> d[k]]

\* The buffers with the fetched_at of every payload removed
InputOf(buffers) ==
    [board_info |->
        [b \in DOMAIN buffers.board_info |-> Drop(buffers.board_info[b], TimestampKeys)],
     topic_summaries |->
        [b \in DOMAIN buffers.topic_summaries |->
            [t \in DOMAIN buffers.topic_summaries[b] |->
                Drop(buffers.topic_summaries[b][t], TimestampKeys)]],
     topic_posts |->
        [k \in DOMAIN buffers.topic_posts |->
            [p \in DOMAIN buffers.topic_posts[k] |->
                Drop(buffers.topic_posts[k][p], TimestampKeys)]]]

\* A first run over an empty data directory
InitStore ==
    /\ board_info = EmptyDict
    /\ topic_summaries = EmptyDict
    /\ topic_posts = EmptyDict
    /\ data_dir = EmptyDict
    /\ store_pc = "open"
    /\ now = 1
    /\ accepted = 0
    /\ accept_log = <<>>
    /\ flushed_from = EmptyDict
    /\ prev_input = NewBuffers
    /\ IdleSpider
    /\ IdleFn
    /\ IdlePosts

\* The spider yields an item: process_item
ProcessItem ==
    /\ store_pc = "open"
    /\ accepted < MaxItems
    /\ \E item \in Items :
          LET after == process_item(Buffers, item)
          IN  /\ board_info' = after.board_info
              /\ topic_summaries' = after.topic_summaries
              /\ topic_posts' = after.topic_posts
              /\ accept_log' = Append(accept_log, item)
    /\ accepted' = accepted + 1
    /\ UNCHANGED <<data_dir, store_pc, now, flushed_from, prev_input>>
    /\ UNCHANGED <<confVars, crawlVars, fnVars, postVars>>

\* The crawl ends: close_spider writes the buffers out
CloseSpider ==
    /\ store_pc = "open"
    /\ LET raising == RaisingLoop(data_dir, Buffers)
       IN  /\ data_dir' = close_spider(data_dir, Flushed(Buffers, raising))
           /\ store_pc' = IF raising = "none" THEN "closed" ELSE "raised"
    /\ flushed_from' = data_dir
    /\ UNCHANGED <<board_info, topic_summaries, topic_posts, now, accepted, accept_log,
                   prev_input>>
    /\ UNCHANGED <<confVars, crawlVars, fnVars, postVars>>

\* The next crawl over the same data directory: a new pipeline object, later
NewRun ==
    /\ store_pc = "closed"
    /\ now < MaxRuns
    /\ board_info' = EmptyDict
    /\ topic_summaries' = EmptyDict
    /\ topic_posts' = EmptyDict
    /\ store_pc' = "open"
    /\ now' = now + 1
    /\ accepted' = 0
    /\ accept_log' = <<>>
    /\ prev_input' = InputOf(Buffers)
    /\ UNCHANGED <<data_dir, flushed_from>>
    /\ UNCHANGED <<confVars, crawlVars, fnVars, postVars>>

NextStore ==
    \/ ProcessItem
    \/ CloseSpider
    \/ NewRun

SpecStore == InitStore /\ [][NextStore]_vars

-----------------------------------------------------------------------------
(* SpecCorrupt: one run of the pipeline over a directory found damaged *)

\* What an earlier run left for the board and for one topic
StoredIndex ==
    [board_id |-> board_id, collected_at |-> 0,
     topics |-> <<[board_id |-> board_id, topic_id |-> <<9>>, board_offset |-> 0,
                   fetched_at |-> 0]>>]

StoredTopic ==
    [board_id |-> board_id, topic_id |-> <<9>>, posts_total |-> 1, updated_at |-> 0,
     posts |-> <<[board_id |-> board_id, topic_id |-> <<9>>, post_id |-> <<7>>,
                  position |-> 1, fetched_at |-> 0]>>]

\* The directories the run can find: each of the two files absent, as it was
\* written, or corrupt
FoundDirs ==
    {[path \in {p \in {IndexFile(board_id), TopicFile(board_id, <<9>>)} : c[p] # "absent"}
        |-> IF c[path] = "stored"
            THEN (IF path = IndexFile(board_id) THEN StoredIndex ELSE StoredTopic)
            ELSE Corrupt(c[path])] :
        c \in [{IndexFile(board_id), TopicFile(board_id, <<9>>)} ->
                  {"absent", "stored"} \cup CorruptKinds]}

InitCorrupt ==
    /\ board_info = EmptyDict
    /\ topic_summaries = EmptyDict
    /\ topic_posts = EmptyDict
    /\ data_dir \in FoundDirs
    /\ store_pc = "open"
    /\ now = 1
    /\ accepted = 0
    /\ accept_log = <<>>
    /\ flushed_from = EmptyDict
    /\ prev_input = NewBuffers
    /\ IdleSpider
    /\ IdleFn
    /\ IdlePosts

NextCorrupt ==
    \/ ProcessItem
    \/ CloseSpider

SpecCorrupt == InitCorrupt /\ [][NextCorrupt]_vars

-----------------------------------------------------------------------------
(* Properties of the crawl *)

Retry(q)      == Get(q.meta, "cf_retry", 0)
Ident(q)      == <<q.callback, q.url.ident>>
PageOffset(q) == IF q.callback = "parse_board"
                 THEN Get(q.meta, "board_offset", 0)
                 ELSE Get(q.meta, "topic_offset", 0)
Answered      == pending \ pending'     \* the request this step answers
Issued        == pending' \ pending     \* the requests this step yields
IsCallback    == last'.op \in {"parse_board", "parse_topic"}

\* C1  Retry ceiling.  In auto mode every challenged response (403 or 520)
\* to a request with retry counter n < 3 yields exactly one request, for the
\* same url and callback, with counter n + 1; a challenged response to a
\* request with counter 3 yields nothing (the page is given up); a request
\* with a counter above 0 is issued only that way, so the counter of one
\* page goes 1, 2, 3 and no request ever carries a counter above 3.
C1_RetryCeiling ==
    [][ /\ \A q \in pending' : Retry(q) <= cf_max_retries
        /\ \A q \in Issued : Retry(q) > 0 =>
              /\ IsCallback /\ last'.status \in ChallengeStatuses
              /\ \E r \in Answered : /\ q.url = r.url
                                     /\ q.callback = r.callback
                                     /\ Retry(q) = Retry(r) + 1
        /\ (cf_mode = "auto" /\ IsCallback /\ last'.status \in ChallengeStatuses) =>
              \E r \in pending :
                 /\ Answered = {r}
                 /\ IF Retry(r) < cf_max_retries
                    THEN /\ last'.result = "retry"
                         /\ \E q \in pending' :
                               /\ Issued = {q}
                               /\ q.url = r.url
                               /\ q.callback = r.callback
                               /\ Retry(q) = Retry(r) + 1
                    ELSE /\ last'.result = "giveup"
                         /\ Retry(r) = cf_max_retries
                         /\ Issued = {}
      ]_vars

\* a page was given up in auto mode: its third retry was challenged too
C1_Witness ==
    /\ cf_mode = "auto"
    /\ last.result = "giveup"
    /\ last.status \in ChallengeStatuses

\* C2  Topic dedup.  In every run each topic id has its summary emitted at
\* most once and its offset-0 topic request scheduled at most once, whatever
\* rows the board pages repeat and whatever board pages were retried.
C2_TopicDedup ==
    \A t \in Topics : summaries_emitted[t] <= 1 /\ topics_scheduled[t] <= 1

\* a later board page listed an already seen topic again and it was skipped
C2_Witness ==
    /\ last.op = "parse_board"
    /\ last.dedup
    /\ board_pages_processed >= 2
    /\ \E t \in Topics : summaries_emitted[t] = 1 /\ topics_scheduled[t] = 1

\* C3  Topic page cap.  When topic_max_pages is set, no topic has more pages
\* processed in a run than the cap.
C3_TopicPageCap ==
    topic_max_pages # 0 => \A t \in Topics : topic_pages_done[t] <= topic_max_pages

\* C4  Expired artifacts are never trusted.  No request of a run is seeded
\* with the artifact file found at startup when its age was at least the ttl.
C4_ExpiredNeverSeeds ==
    \A q \in pending :
        ("storage_state" \in DOMAIN q.meta /\ q.meta["storage_state"] = "old")
            => state_age < storage_state_ttl

\* C10 Per-identifier ordering.  Every request issued for a board or a topic
\* is the only one pending for that identifier, and is either its first page
\* (offset 0: from start_requests, or for a topic that enters topic_seen in
\* this step), or comes from the answer to the previous request of the same
\* identifier: the same offset when that answer was challenged (a retry of
\* the page), a strictly greater offset when that page was processed.
C10_OrderedPages ==
    [][ \A q \in Issued :
          /\ \A p \in pending' : Ident(p) = Ident(q) => p = q
          /\ \/ /\ last'.op = "start_requests"
                /\ q.callback = "parse_board" /\ PageOffset(q) = 0 /\ Retry(q) = 0
             \/ /\ last'.op = "parse_board" /\ last'.result = "page"
                /\ q.callback = "parse_topic" /\ PageOffset(q) = 0 /\ Retry(q) = 0
                /\ q.url.ident \notin topic_seen
                /\ q.url.ident \in topic_seen'
             \/ \E r \in Answered :
                   /\ Ident(r) = Ident(q)
                   /\ \/ last'.result = "retry" /\ PageOffset(q) = PageOffset(r)
                      \/ /\ last'.result = "page"
                         /\ PageOffset(q) > PageOffset(r)
                         /\ q.url.offset = PageOffset(q)
      ]_vars

\* a board page and a topic page beyond the first are both being fetched
C10_Witness ==
    /\ \E q \in pending : q.callback = "parse_board" /\ PageOffset(q) > 0
    /\ \E q \in pending : q.callback = "parse_topic" /\ PageOffset(q) > 0

\* C11 Frontier continuation and termination.  When a board or topic page has
\* been processed, the only request that may follow for its identifier is
\* the one for the smallest offset beyond its own that the page links to for
\* that identifier; that request does follow unless a page cap is configured;
\* and a page with no such link is followed by no request for the identifier
\* (no offset is made up from a default step).
C11_Frontier ==
    [][ (IsCallback /\ last'.result = "page") =>
            \A r \in Answered :
                LET follow == {q \in Issued : Ident(q) = Ident(r)}
                    capped == IF r.callback = "parse_board"
                              THEN max_board_pages # 0
                              ELSE topic_max_pages # 0
                IN  /\ advertised' = {} => follow = {}
                    /\ \A q \in follow :
                          /\ q.url.offset = SetMin(advertised')
                          /\ PageOffset(q) = SetMin(advertised')
                          /\ Retry(q) = 0
                    /\ (advertised' # {} /\ ~ capped) => Cardinality(follow) = 1
      ]_vars

\* a page that links to two later pages of its topic was processed and the
\* nearer one is being fetched
C11_Witness ==
    /\ last.op = "parse_topic"
    /\ last.result = "page"
    /\ Cardinality(advertised) >= 2
    /\ topic_max_pages = 0
    /\ \E q \in pending : /\ q.callback = "parse_topic"
                           /\ PageOffset(q) = SetMin(advertised)

\* C12 Manual mode never retries.  When cf_mode is manual, a board or topic
\* response with status 403 or 520 yields no request at all: the page is
\* given up at once, and no request of a manual run carries a retry counter.
C12_ManualNeverRetries ==
    [][ (cf_mode = "manual" /\ IsCallback) =>
            /\ \A q \in pending' : Retry(q) = 0
            /\ last'.status \in ChallengeStatuses =>
                  /\ last'.result = "giveup"
                  /\ Issued = {}
                  /\ Cardinality(Answered) = 1
      ]_vars

\* a challenged page was given up in manual mode
C12_Witness ==
    /\ cf_mode = "manual"
    /\ last.op \in {"parse_board", "parse_topic"}
    /\ last.status \in ChallengeStatuses
    /\ last.result = "giveup"

\* C13 Board page cap.  The count of processed board pages rises by one
\* exactly when a board response that is not challenged is handled, and by
\* nothing on a challenged response or any other step; when max_board_pages
\* is set the count never exceeds it, and once the count has reached it no
\* board request is outstanding or issued.
C13_BoardPageCap ==
    [][ /\ board_pages_processed' =
              IF last'.op = "parse_board" /\ last'.result = "page"
              THEN board_pages_processed + 1
              ELSE board_pages_processed
        /\ (last'.op = "parse_board" /\ last'.status \in ChallengeStatuses)
              => last'.result # "page"
        /\ max_board_pages # 0 =>
              /\ board_pages_processed' <= max_board_pages
              /\ board_pages_processed' >= max_board_pages =>
                    \A q \in pending' : q.callback # "parse_board"
      ]_vars

\* the board was cut at a cap of one page although that page linked to a
\* later one
C13_Witness ==
    /\ max_board_pages = 1
    /\ board_pages_processed = 1
    /\ last.op = "parse_board"
    /\ last.result = "page"
    /\ advertised # {}
    /\ \A q \in pending : q.callback # "parse_board"

TopicsEmitted   == {t \in Topics : summaries_emitted[t] > 0}
TopicsScheduled == {t \in Topics : topics_scheduled[t] > 0}

\* C14 Topic cap.  When max_topics is set, the distinct topics whose summary
\* has been emitted in the run, and those whose first topic page has been
\* scheduled, number at most max_topics, over all board pages of the run; the
\* topics counted against the cap are exactly those emitted, each once, so a
\* row repeating a topic already emitted uses up none of the cap.
C14_TopicCap ==
    /\ topic_seen = TopicsEmitted
    /\ TopicsScheduled \subseteq TopicsEmitted
    /\ max_topics # 0 =>
          /\ Cardinality(TopicsEmitted) <= max_topics
          /\ Cardinality(TopicsScheduled) <= max_topics

\* with a cap of one topic, a second board page listed the emitted topic
\* again and the run still holds one emitted and scheduled topic
C14_Witness ==
    /\ max_topics = 1
    /\ last.op = "parse_board"
    /\ last.dedup
    /\ board_pages_processed = 2
    /\ Cardinality(TopicsEmitted) = 1
    /\ Cardinality(TopicsScheduled) = 1

\* C15 Browser release.  Once the bootstrap procedure of the run has returned
\* or raised (the crawl is running, or start_requests has failed), the
\* browser it opened is closed.
C15_BrowserReleased ==
    pc \in {"running", "failed"} => browser # "open"

C17_AtomicSave ==
    state_file # "partial"

Extracted ==
    \/ board_pages_processed' # board_pages_processed
    \/ board_metadata_emitted' # board_metadata_emitted
    \/ topic_seen' # topic_seen
    \/ summaries_emitted' # summaries_emitted
    \/ topics_scheduled' # topics_scheduled
    \/ topic_pages_done' # topic_pages_done

\* C19 Response classification (as the code has it).  A response handed to
\* parse_board or parse_topic has status 403, 520 or 2xx; it is retried or
\* given up, with no extraction, exactly when the status is 403 or 520, and
\* otherwise it is extracted and the frontier consulted, with no retry of it.
\* A response with any other status is not handed to the callbacks: the
\* request ends with neither extraction nor a retry.
C19_ClassificationAmended ==
    [][ /\ IsCallback =>
              /\ last'.status \in HandledStatuses
              /\ last'.status \in ChallengeStatuses <=>
                    last'.result \in {"retry", "giveup"}
              /\ last'.status \notin ChallengeStatuses <=> last'.result = "page"
              /\ last'.result \in {"retry", "giveup"} => ~ Extracted
              /\ last'.result = "page" =>
                    /\ Extracted
                    /\ \A q \in Issued : Retry(q) = 0
                    /\ \A q \in Issued, r \in Answered : q.url # r.url
        /\ last'.op = "http_error" =>
              /\ last'.status \notin HandledStatuses
              /\ Cardinality(Answered) = 1
              /\ Issued = {}
              /\ ~ Extracted
      ]_vars

\* a board page was extracted and a later response, with status 404, was
\* dropped before any callback
C19_Witness ==
    /\ last.op = "http_error"
    /\ last.status = 404
    /\ last.result = "dropped"
    /\ board_pages_processed >= 1

\* C19 as stated: a response is retried or given up exactly when its status
\* is 403 or 520, and a response with any other status is extracted and the
\* frontier advanced.
C19_Classification ==
    [][ last'.op \in {"parse_board", "parse_topic", "http_error"} =>
            IF last'.status \in ChallengeStatuses
            THEN last'.result \in {"retry", "giveup"}
            ELSE last'.result = "page" /\ Extracted
      ]_vars

\* the artifact file exists and is younger than the ttl (a file written by
\* the bootstrap of this run is)
ArtifactFresh ==
    \/ state_file \in {"new", "new_nocookies"}
    \/ state_file = "old" /\ state_age < storage_state_ttl

\* C20 Retry context and seeding.  A retry issued for a challenged response
\* asks for a new browsing context and is seeded with the artifact when the
\* artifact is fresh; when it is not, the handler starts a bootstrap.
C20_RetrySeeding ==
    [][ (IsCallback /\ last'.result = "retry") =>
            \A q \in Issued :
                /\ "playwright_context" \in DOMAIN q.meta
                /\ IF ArtifactFresh
                   THEN Get(q.meta, "storage_state", "absent") = state_file
                   ELSE bootstraps' = bootstraps + 1
      ]_vars

\* the keys _build_meta attaches to every request it builds
TransportKeys ==
    {"playwright", "playwright_page_init_callback", "storage_state", "playwright_context"}

\* C21 Retry is the identical logical request.  The retry of a challenged
\* request has its url and callback, has board_id, topic_id, board_offset and
\* topic_offset exactly where the challenged request had them and with the
\* same values, and a retry counter one higher; no other key of the
\* challenged request is carried over (pages_seen and board_step are gone):
\* the rest of its meta is what _build_meta attaches anew.
C21_RetryIdentical ==
    [][ (IsCallback /\ last'.result = "retry") =>
            \A r \in Answered, q \in Issued :
                /\ q.url = r.url
                /\ q.callback = r.callback
                /\ \A k \in RetryKeys :
                      /\ k \in DOMAIN q.meta <=> k \in DOMAIN r.meta
                      /\ k \in DOMAIN r.meta => q.meta[k] = r.meta[k]
                /\ Retry(q) = Retry(r) + 1
                /\ DOMAIN q.meta \subseteq RetryKeys \cup {"cf_retry"} \cup TransportKeys
                /\ "pages_seen" \notin DOMAIN q.meta
                /\ "board_step" \notin DOMAIN q.meta
      ]_vars

\* the request of a later topic page, which carried pages_seen, was challenged
\* and is being retried
C21_Witness ==
    /\ last.op = "parse_topic"
    /\ last.result = "retry"
    /\ \E q \in pending :
          /\ q.callback = "parse_topic"
          /\ Retry(q) = 1
          /\ q.url.offset > 0
          /\ "pages_seen" \notin DOMAIN q.meta

\* C22 Auto bootstrap without clearance yields no artifact.  When the auto
\* bootstrap of the run ended without the challenge cleared (the operator
\* typed SKIP or the deadline passed), the run writes no artifact file: the
\* file stays as it was found at startup.
C22_NoArtifactWithoutClearance ==
    (/\ cf_mode = "auto"
     /\ bootstraps = 1
     /\ outcome.launched
     /\ ~ outcome.raised
     /\ ~ outcome.solved) => state_file \in {"absent", "old"}

C24_BoardInfoOnce ==
    [][ /\ board_infos_emitted' <= 1
        /\ board_infos_emitted' =
              IF /\ last'.op = "parse_board"
                 /\ last'.result = "page"
                 /\ board_pages_processed = 0
              THEN board_infos_emitted + 1
              ELSE board_infos_emitted
        /\ board_infos_emitted' = (IF board_pages_processed' >= 1 THEN 1 ELSE 0)
      ]_vars

\* a second board page has just been processed and the run has yielded one
\* board info
C24_Witness ==
    /\ board_pages_processed = 2
    /\ board_infos_emitted = 1
    /\ last.op = "parse_board"
    /\ last.result = "page"

\* C29 Invalid mode fails fast.  A run whose challenge mode is not auto or
\* manual, or whose bootstrap mode is not auto or skip, is rejected at
\* construction, so that it never starts a bootstrap, opens a browser or
\* issues a request.
C29_InvalidModeRejected ==
    (cf_mode \notin {"auto", "manual"} \/ bootstrap_mode \notin {"auto", "skip"}) =>
        /\ bootstraps = 0
        /\ browser = "none"
        /\ pending = {}

\* C30 Bootstrap at most once and only at startup.  A run starts at most one
\* bootstrap, in start_requests before any request has been issued, and only
\* when the artifact file is absent or at least as old as the ttl; with a
\* file younger than the ttl start_requests goes straight to the first
\* request, seeded with that file: no bootstrap starts, no browser is
\* launched and the file stays as it was, in that step and ever after.
C30_BootstrapOnceAtStartup ==
    [][ /\ bootstraps' <= 1
        /\ bootstraps' # bootstraps =>
              /\ pc = "init"
              /\ last'.op = "start_requests"
              /\ pending = {} /\ pending' = {}
              /\ state_file = "absent" \/ state_age >= storage_state_ttl
        /\ (browser' = "open" /\ browser # "open") => pc = "bootstrap"
        /\ (pc = "init" /\ state_file # "absent" /\ state_age < storage_state_ttl) =>
              /\ pc' = "running"
              /\ todo' = <<>>
              /\ pending' = {FirstRequest(state_file)}
        /\ (state_file = "old" /\ state_age < storage_state_ttl) =>
              /\ bootstraps' = 0
              /\ browser' = "none"
              /\ state_file' = state_file
      ]_vars

\* a run that found a file younger than the ttl has processed a board page
\* without a bootstrap
C30_Witness ==
    /\ state_file = "old"
    /\ state_age < storage_state_ttl
    /\ pc = "running"
    /\ bootstraps = 0
    /\ board_pages_processed >= 1

BoardRequests(S) == {q \in S : q.callback = "parse_board"}
TopicRequests(S) == {q \in S : q.callback = "parse_topic"}

\* this step hands parse_board a challenged response that cannot be retried:
\* the mode is manual, or the request carries the last retry
BoardPageGivenUp ==
    /\ last'.op = "parse_board"
    /\ last'.status \in ChallengeStatuses
    /\ \E r \in Answered :
          /\ r.callback = "parse_board"
          /\ cf_mode = "manual" \/ Retry(r) >= cf_max_retries

\* C31 Abandoning a board page ends board traversal.  The step that gives a
\* board page up leaves no board request outstanding, emits and schedules no
\* topic, and leaves the outstanding topic requests as they were; and from a
\* running crawl with no board request outstanding no board request is ever
\* issued again, no board page is processed and no topic is emitted or
\* scheduled, so nothing of the pages after the abandoned one is requested.
C31_GiveUpEndsBoard ==
    [][ /\ BoardPageGivenUp =>
              /\ BoardRequests(pending') = {}
              /\ TopicRequests(pending') = TopicRequests(pending)
              /\ topic_seen' = topic_seen
              /\ summaries_emitted' = summaries_emitted
              /\ topics_scheduled' = topics_scheduled
        /\ (pc = "running" /\ BoardRequests(pending) = {}) =>
              /\ BoardRequests(pending') = {}
              /\ board_pages_processed' = board_pages_processed
              /\ topic_seen' = topic_seen
              /\ summaries_emitted' = summaries_emitted
              /\ topics_scheduled' = topics_scheduled
      ]_vars

\* the second board page has just been given up, after its last retry or in
\* manual mode, while requests for topics listed on the first are outstanding
C31_Witness ==
    /\ pc = "running"
    /\ last.op = "parse_board"
    /\ last.result = "giveup"
    /\ board_pages_processed = 1
    /\ BoardRequests(pending) = {}
    /\ TopicRequests(pending) # {}

\* C32 The crawl terminates.  Whatever the responses are, challenged or not,
\* a crawl whose requests are all answered comes to hold no request and
\* holds none from then on; no page is fetched more than cf_max_retries + 1
\* times; the retry counter of every request lies in 0..cf_max_retries, and
\* a request for a page other than the one just answered carries counter 0.
C32_Terminates ==
    /\ <>[](pc \in {"running", "closed"} /\ pending = {})
    /\ [](fetches <= cf_max_retries + 1)
    /\ [](\A q \in pending : Retry(q) \in 0..cf_max_retries)
    /\ [][\A q \in Issued : (\A r \in Answered : r.url # q.url) => Retry(q) = 0]_vars

\* a crawl over both board pages has ended, and a later page of a topic was
\* fetched cf_max_retries + 1 times in it
C32_Witness ==
    /\ pc = "closed"
    /\ pending = {}
    /\ board_pages_processed = 2
    /\ watched.param = "topic"
    /\ watched.offset > 0
    /\ fetches = cf_max_retries + 1

-----------------------------------------------------------------------------
(* Properties of the offset frontier (SpecFn) *)

Greater == {x \in fn_offsets : x > fn_current}

\* C5  NextOffset.  For every offset set S and current offset c,
\* next_offset(S, c) is the minimum element of S strictly greater than c,
\* and is None exactly when S has no element greater than c.
C5_NextOffset ==
    fn_out.op = "next_offset" =>
        /\ fn_out.value = None <=> Greater = {}
        /\ Greater # {} => /\ fn_out.value \in Greater
                           /\ \A y \in Greater : fn_out.value <= y

\* next_offset picked the least of several greater offsets, from a current
\* offset that is not the least element of the set
C5_Witness ==
    /\ fn_out.op = "next_offset"
    /\ fn_out.value # None
    /\ Cardinality(Greater) >= 2
    /\ \E x \in fn_offsets : x < fn_current

NativeSet == {0, 25, 50}

\* C6 (as claimed)  For all offset sets S containing {0, 25, 50},
\* detect_step(S, default) returns 25 whatever the default; for S = {0} it
\* returns the default.
C6_DetectStepNative ==
    fn_out.op = "detect_step" =>
        /\ NativeSet \subseteq fn_offsets => fn_out.value = 25
        /\ fn_offsets = {0} => fn_out.value = fn_default

\* C6 (amended)  For all offset sets S containing {0, 25, 50},
\* detect_step(S, default) returns a positive step of at most 25 whatever
\* the default, and exactly 25 when no two elements of S are less than 25
\* apart (S = {0, 25, 50} itself, or with further offsets at least 25 away);
\* for S = {0} it returns the default.
C6_DetectStepAmended ==
    fn_out.op = "detect_step" =>
        /\ NativeSet \subseteq fn_offsets =>
              /\ fn_out.value \in 1..25
              /\ (\A a, b \in fn_offsets : a < b => b - a >= 25) => fn_out.value = 25
        /\ fn_offsets = {0} => fn_out.value = fn_default

\* detect_step returned 25 on a set with {0, 25, 50} and a farther offset,
\* under a default other than 25
C6_Witness ==
    /\ fn_out.op = "detect_step"
    /\ fn_offsets = NativeSet \cup {100}
    /\ fn_default # 25
    /\ fn_out.value = 25

-----------------------------------------------------------------------------
(* Properties of _extract_posts (SpecPosts) *)

PostWrappers == {i \in DOMAIN page_wrappers : page_wrappers[i] = "post"}

\* C9 (as claimed)  The positions of the posts emitted from a page at
\* starting offset o are o+1, o+2, ..., o+n in page order, also when some
\* wrappers of the page are skipped.
C9_ContiguousPositions ==
    \A k \in DOMAIN posts_out : posts_out[k].position = page_offset + k

\* C9 (amended)  The posts emitted from a page at starting offset o are the
\* page's post wrappers in page order, and the position of each is o + i
\* where i is the 1-based place of its wrapper among all the wrappers of the
\* page, skipped ones counted: positions are strictly increasing, and they
\* are the contiguous o+1, ..., o+n when no wrapper is skipped.
C9_PositionsByWrapper ==
    posts_out # <<>> =>
        /\ Len(posts_out) = Cardinality(PostWrappers)
        /\ \A k \in DOMAIN posts_out :
              \E i \in PostWrappers :
                 /\ Cardinality({j \in PostWrappers : j < i}) = k - 1
                 /\ posts_out[k].position = page_offset + i
                 /\ posts_out[k].post_id = PostIdAt(page_offset, i)
        /\ \A k \in DOMAIN posts_out :
              k > 1 => posts_out[k].position > posts_out[k - 1].position
        /\ PostWrappers = DOMAIN page_wrappers =>
              \A k \in DOMAIN posts_out : posts_out[k].position = page_offset + k

\* posts were emitted from a page at offset 5 that has a skipped wrapper
\* between two posts
C9_Witness ==
    /\ page_offset = 5
    /\ Len(posts_out) >= 2
    /\ \E i, j, k \in DOMAIN page_wrappers :
          /\ i < j /\ j < k
          /\ page_wrappers[i] = "post"
          /\ page_wrappers[j] # "post"
          /\ page_wrappers[k] = "post"

-----------------------------------------------------------------------------
(* Properties of the storage pipeline *)

IdsOf(entries, id) == {entries[k][id] : k \in DOMAIN entries}

TopicsIn(files, b) == Get(_load_json(files, IndexFile(b), EmptyDict), "topics", <<>>)

\* C7: when close_spider has flushed a batch of topic summaries of a board
\* over the index it found on disk, the topic ids of the written index are
\* exactly those of the found index and of the batch, each id occurs once, an
\* id of the batch carries the buffered record, any other id carries the
\* record the found index had for it, and the list is in strictly ascending
\* order of (board_offset, topic_id).
C7_IndexMerge ==
    store_pc = "closed" =>
        \A b \in DOMAIN topic_summaries :
            LET old   == TopicsIn(flushed_from, b)
                new   == TopicsIn(data_dir, b)
                batch == topic_summaries[b]
            IN  /\ IdsOf(new, "topic_id") = IdsOf(old, "topic_id") \cup DOMAIN batch
                /\ \A i, j \in DOMAIN new :
                        i < j =>
                            \/ new[i].board_offset < new[j].board_offset
                            \/ /\ new[i].board_offset = new[j].board_offset
                               /\ StrLess(new[i].topic_id, new[j].topic_id)
                /\ \A i \in DOMAIN new :
                        IF new[i].topic_id \in DOMAIN batch
                        THEN new[i] = batch[new[i].topic_id]
                        ELSE \E k \in DOMAIN old : old[k] = new[i]

\* The case of C7: the index on disk held two topics, the batch replaces one
\* of them and brings a third, and the order by offset differs from the order
\* by id.
C7_Witness ==
    /\ store_pc = "closed"
    /\ board_id \in DOMAIN topic_summaries
    /\ LET old   == TopicsIn(flushed_from, board_id)
           new   == TopicsIn(data_dir, board_id)
           batch == topic_summaries[board_id]
       IN  /\ Len(old) = 2
           /\ Cardinality(DOMAIN batch) = 2
           /\ Cardinality(IdsOf(old, "topic_id") \cap DOMAIN batch) = 1
           /\ Len(new) = 3
           /\ \E i \in DOMAIN new : new[i].fetched_at < now
           /\ \E i, j \in DOMAIN new : i < j /\ StrLess(new[j].topic_id, new[i].topic_id)

\* A file with its timestamp fields removed, those of its records included
WithoutTimestamps(content) ==
    LET top == Drop(content, TimestampKeys)
        records(key) == [k \in DOMAIN content[key] |-> Drop(content[key][k], TimestampKeys)]
    IN  IF "topics" \in DOMAIN content THEN Update(top, [topics |-> records("topics")])
        ELSE IF "posts_total" \in DOMAIN content THEN Update(top, [posts |-> records("posts")])
        ELSE top

FilesWithoutTimestamps(files) == [path \in DOMAIN files |-> WithoutTimestamps(files[path])]

\* C8: when a run has accepted the records the previous run accepted and
\* close_spider has flushed them over the files the previous run wrote, the
\* files are those of the previous run in every field except fetched_at,
\* collected_at and updated_at.
C8_Idempotent ==
    (store_pc = "closed" /\ now >= 2 /\ InputOf(Buffers) = prev_input) =>
        FilesWithoutTimestamps(data_dir) = FilesWithoutTimestamps(flushed_from)

\* The case of C8: a run over the same topic summary and post as the run
\* before it has flushed over an index that also holds a topic from an earlier
\* run, and the files differ from the previous run's in their timestamps.
C8_Witness ==
    /\ store_pc = "closed"
    /\ now >= 2
    /\ InputOf(Buffers) = prev_input
    /\ board_id \in DOMAIN topic_summaries
    /\ topic_posts # EmptyDict
    /\ IdsOf(TopicsIn(flushed_from, board_id), "topic_id")
            \ DOMAIN topic_summaries[board_id] # {}
    /\ data_dir # flushed_from

-----------------------------------------------------------------------------
(* Properties of the buffers (SpecStore) *)

\* The key a record is stored under: board id; board id and topic id; board
\* id, topic id and post id
KeyOf(item) ==
    IF item.cls = "BoardInfoItem" THEN <<item.fields.board_id>>
    ELSE IF item.cls = "TopicSummaryItem"
    THEN <<item.fields.board_id, item.fields.topic_id>>
    ELSE <<item.fields.board_id, item.fields.topic_id, item.fields.post_id>>

SameKey(a, b) == Len(a) = Len(b) /\ a = b

AcceptedKeys == {KeyOf(accept_log[i]) : i \in DOMAIN accept_log}

\* what the buffers hold under a key: a set of no or one record
Held(key) ==
    IF Len(key) = 1
    THEN {board_info[b] : b \in (DOMAIN board_info) \cap {key[1]}}
    ELSE IF Len(key) = 2
    THEN {topic_summaries[b][key[2]] :
             b \in {c \in (DOMAIN topic_summaries) \cap {key[1]} :
                       key[2] \in DOMAIN topic_summaries[c]}}
    ELSE {topic_posts[k][key[3]] :
             k \in {c \in (DOMAIN topic_posts) \cap {<<key[1], key[2]>>} :
                       key[3] \in DOMAIN topic_posts[c]}}

\* the keys the buffers have an entry for
HeldKeys ==
    {<<b>> : b \in DOMAIN board_info}
    \cup UNION {{<<b, t>> : t \in DOMAIN topic_summaries[b]} : b \in DOMAIN topic_summaries}
    \cup UNION {{<<k[1], k[2], p>> : p \in DOMAIN topic_posts[k]} : k \in DOMAIN topic_posts}

\* the record of the last call that accepted an item with the key
LastAccepted(key) ==
    LET calls == {i \in DOMAIN accept_log : SameKey(KeyOf(accept_log[i]), key)}
    IN  {Update(accept_log[i].fields, [fetched_at |-> now]) :
            i \in {j \in calls : \A k \in calls : k <= j}}

\* C18 Upsert without lost updates.  Whatever the order in which process_item
\* was called in a run, the buffers have an entry for exactly the keys
\* accepted, one per key, and the entry of a key is the record (with its
\* fetched_at) of the last call that accepted that key.
C18_NoLostUpdate ==
    /\ HeldKeys = AcceptedKeys
    /\ \A key \in AcceptedKeys :
          /\ Held(key) = LastAccepted(key)
          /\ Cardinality(Held(key)) = 1

\* two calls of one run accepted the same topic with different records
C18_Witness ==
    /\ Len(accept_log) = 2
    /\ KeyOf(accept_log[1]) = KeyOf(accept_log[2])
    /\ accept_log[1] # accept_log[2]
    /\ accept_log[1].cls = "TopicSummaryItem"

-----------------------------------------------------------------------------
(* Properties of the topic post files (SpecStore) *)

PostsIn(files, key) ==
    Get(_load_json(files, TopicFile(key[1], key[2]), EmptyDict), "posts", <<>>)

\* C25 Per-topic post merge.  When close_spider has flushed the buffered posts
\* of a topic over the post file it found, the post ids of the written file
\* are exactly those of the found file and of the buffer, each id occurs
\* once, an id of the buffer carries the buffered record and any other id
\* the record the found file had, the list is in strictly ascending order of
\* (position, post_id), and posts_total is the length of the list.
C25_PostMerge ==
    store_pc = "closed" =>
        \A key \in DOMAIN topic_posts :
            LET old   == PostsIn(flushed_from, key)
                new   == PostsIn(data_dir, key)
                batch == topic_posts[key]
                file  == data_dir[TopicFile(key[1], key[2])]
            IN  /\ IdsOf(new, "post_id") = IdsOf(old, "post_id") \cup DOMAIN batch
                /\ Len(new) = Cardinality(IdsOf(new, "post_id"))
                /\ \A i, j \in DOMAIN new :
                        i < j =>
                            \/ new[i].position < new[j].position
                            \/ /\ new[i].position = new[j].position
                               /\ StrLess(new[i].post_id, new[j].post_id)
                /\ \A i \in DOMAIN new :
                        IF new[i].post_id \in DOMAIN batch
                        THEN new[i] = batch[new[i].post_id]
                        ELSE \E k \in DOMAIN old : old[k] = new[i]
                /\ file.posts_total = Len(new)

\* the file on disk held two posts; the run buffered one of them again, at
\* another position, and the flush reordered the file
C25_Witness ==
    /\ store_pc = "closed"
    /\ \E key \in DOMAIN topic_posts :
          LET old   == PostsIn(flushed_from, key)
              new   == PostsIn(data_dir, key)
              batch == topic_posts[key]
          IN  /\ Len(old) = 2
              /\ Cardinality(DOMAIN batch) = 1
              /\ Len(new) = 2
              /\ \E i \in DOMAIN new : new[i].fetched_at < now
              /\ new[1].post_id # old[1].post_id
              /\ data_dir[TopicFile(key[1], key[2])].posts_total = 2

-----------------------------------------------------------------------------
(* Properties of the board info file (SpecStore) *)

\* C26 Board info is replaced wholesale.  When close_spider has flushed a
\* buffered board info, the board_info file of the board has exactly the
\* fields of the buffered record, with its values: nothing of the file found
\* on disk is left, not even a field the buffered record lacks.
C26_BoardInfoReplaced ==
    store_pc = "closed" =>
        \A b \in DOMAIN board_info :
            /\ BoardInfoFile(b) \in DOMAIN data_dir
            /\ DOMAIN data_dir[BoardInfoFile(b)] = DOMAIN board_info[b]
            /\ data_dir[BoardInfoFile(b)] = board_info[b]

\* the file found on disk had a posts field and another name; the buffered
\* record has no posts field, and neither has the file now
C26_Witness ==
    /\ store_pc = "closed"
    /\ board_id \in DOMAIN board_info
    /\ BoardInfoFile(board_id) \in DOMAIN flushed_from
    /\ "posts" \in DOMAIN flushed_from[BoardInfoFile(board_id)]
    /\ flushed_from[BoardInfoFile(board_id)].name # board_info[board_id].name
    /\ "posts" \notin DOMAIN board_info[board_id]
    /\ "posts" \notin DOMAIN data_dir[BoardInfoFile(board_id)]

-----------------------------------------------------------------------------
(* Properties of a flush over damaged files (SpecCorrupt) *)

\* C27 Corrupt stored state is not fatal.  Whatever the index and the topic
\* post file found on disk were -- sound, not JSON, JSON of another shape,
\* unreadable -- the flush completes without raising, and over a corrupt
\* file it writes a file holding exactly the buffered records.
C27_CorruptNotFatal ==
    store_pc # "open" =>
        /\ store_pc = "closed"
        /\ \A b \in DOMAIN topic_summaries :
              IsCorrupt(flushed_from, IndexFile(b)) =>
                  IdsOf(TopicsIn(data_dir, b), "topic_id") = DOMAIN topic_summaries[b]
        /\ \A k \in DOMAIN topic_posts :
              IsCorrupt(flushed_from, TopicFile(k[1], k[2])) =>
                  IdsOf(PostsIn(data_dir, k), "post_id") = DOMAIN topic_posts[k]

-----------------------------------------------------------------------------
(* Properties of detect_step (SpecFn) *)

\* the smallest distance between two elements of S, which is the smallest
\* difference of two neighbours in sorted order
MinGap(S) == SetMin({b - a : <<a, b>> \in {p \in S \X S : p[1] < p[2]}})

\* C28 (amended)  For every set S of offsets and every default d,
\* detect_step(S, d) is the minimum difference between two consecutive
\* elements of S in sorted order when S has at least two elements, whatever
\* d, and is d when S has fewer than two elements.
C28_DetectStepAmended ==
    fn_out.op = "detect_step" =>
        IF Cardinality(fn_offsets) >= 2
        THEN fn_out.value = MinGap(fn_offsets)
        ELSE fn_out.value = fn_default

\* detect_step returned the smallest of unequal gaps, which is not the default
C28_Witness ==
    /\ fn_out.op = "detect_step"
    /\ fn_offsets = {0, 10, 25, 50}
    /\ fn_out.value = 10
    /\ fn_default # 10

\* C28 (as claimed)  detect_step(S, d) equals the minimum difference between
\* consecutive elements of S, and equals d exactly when S has fewer than two
\* elements.
C28_DetectStepReference ==
    fn_out.op = "detect_step" =>
        /\ Cardinality(fn_offsets) >= 2 => fn_out.value = MinGap(fn_offsets)
        /\ fn_out.value = fn_default <=> Cardinality(fn_offsets) < 2

====
